---- MODULE Spec2Model ----
(***************************************************************************)
(* A model of modeltrack's container module: the Part / Assembly / Step    *)
(* object graph and the Model that owns the step sequence and the          *)
(* registries.                                                             *)
(*                                                                         *)
(* Python objects live in a heap, objs, and are named by their index.      *)
(* The dict objects (status maps) and list objects (member lists) they     *)
(* refer to live in heaps of their own, so that the sharing produced by    *)
(* copy.copy is part of the state: a status map is named by the object     *)
(* whose constructor created it, a member list by the object that created  *)
(* it and a generation number.  Lists nothing refers to are dropped.       *)
(* An exception leaves no state behind except the assignments made before  *)
(* it was raised; every operator that models a method returns the heap it  *)
(* leaves together with the error it raised ("none" when it returned).     *)
(***************************************************************************)
EXTENDS Integers, Sequences, FiniteSets, TLC

\* ------------------------------------------------------------------ bounds
MaxObj == 4        \* objects ever allocated (Part, Assembly, Step, copies)
MaxParts == 2      \* bare Parts
MaxAsm == 2        \* Assembly objects (the caller's and the Steps' copies)
MaxSteps == 2      \* Step objects
MaxArgs == 2       \* longest member sequence passed to a constructor/attach
MaxAttach == 1     \* member lists in use that attach built, and attach calls behind each
MaxFlips == 1      \* status entries that may differ from the initial False

\* ------------------------------------------------------- domain of inputs
None == 0          \* Python None as a reference
NoList == <<>>     \* the _parts/_assemblies slots of a bare Part
Unset == ""        \* the _id slot before Part.__init__ ran
Ids == {"x", "y"}     \* ids of Parts
AsmIds == {"a"}       \* ids of Assemblies
StepIds == {"s"}      \* names of Steps
Paints == {"pa", "pb"}
Decals == {"d1"}
Status == {"True", "False", "None"}

\* keys a caller may use by mistake: a detail.Color and a detail.ColorMix
Colors == {"col", "mix"}
\* a value that is none of True, False, None
Other == "other"

\* type(k) of a key
typeOf(k) ==
    IF k \in Paints THEN "Paint"
    ELSE IF k \in Decals THEN "Decal"
    ELSE IF k = "col" THEN "Color" ELSE "ColorMix"

\* None passed where a Paint is expected
NoPaint == "nopaint"

\* detail.Color attributes of the two paints: pa has a code, pb only a name
code(p) == IF p = "pa" THEN "c1" ELSE ""
name(p) == IF p = "pa" THEN "" ELSE "c1"
type(p) == "BRUSH"

VARIABLES objs, maps, lists, steps, parts, assemblies, paints, decals

vars == <<objs, maps, lists, steps, parts, assemblies, paints, decals>>
heapVars == <<objs, maps, lists>>
modelVars == <<steps, parts, assemblies, paints, decals>>

Refs == 1..Len(objs)
Heap == [objs |-> objs, maps |-> maps, lists |-> lists]

\* ------------------------------------------------------------ small helpers
Range(s) == {s[i] : i \in 1..Len(s)}

SeqsUpTo(S, n) == UNION {[1..k -> S] : k \in 0..n}

RECURSIVE SetToSeqs(_)
\* every ordering of a finite set: the orders in which a set or dict of
\* hashed keys can be iterated
SetToSeqs(S) ==
    IF S = {} THEN {<<>>}
    ELSE UNION {{<<x>> \o t : t \in SetToSeqs(S \ {x})} : x \in S}

\* classes: Step is-a Assembly is-a Part
isStep(os, o) == o # None /\ os[o].cls = "Step"
isAssembly(os, o) == os[o].cls \in {"Assembly", "Step"}
\* type(p) of a member argument; None stands for a value of another type
clsOf(os, p) == IF p = None THEN "NoneType" ELSE os[p].cls

\* o.paints, o.decals, o.parts, o.assemblies read through the heap
paintsOf(h, o) == h.maps[h.objs[o].paints].paints
decalsOf(h, o) == h.maps[h.objs[o].decals].decals
partsOf(h, o) == h.lists[h.objs[o].parts].parts
assembliesOf(h, o) == h.lists[h.objs[o].assemblies].assemblies

\* p.paints.keys() / p.decals.keys() of a member argument
keys(h, p, which) ==
    IF p = None THEN {}
    ELSE IF which = "paints" THEN DOMAIN paintsOf(h, p) ELSE DOMAIN decalsOf(h, p)

\* the name of the list an object's constructor creates, the name of the
\* list attach replaces it with, and the lists still referred to
newList(o) == <<o, 0>>
nextList(h, o) == <<o, h.objs[o].parts[2] + 1>>
liveLists(os) == {os[o].parts : o \in 1..Len(os)} \ {NoList}
collect(h) == [h EXCEPT !.lists = [l \in DOMAIN h.lists \cap liveLists(h.objs) |-> h.lists[l]]]

\* ------------------------------------------------------------------ Part
\* Part.__init__ on the object at reference self: the two status maps with
\* every key False, and master None.  (The slots of Assembly and Step that
\* were assigned before the call, ls and prev, are kept.)
PartInit(h, self, cls, id, ps, ds, ls, prev) ==
    LET n == IF self > Len(h.objs) THEN self ELSE Len(h.objs)
    IN [objs  |-> [i \in 1..n |->
                     IF i = self
                     THEN [cls |-> cls, id |-> id, paints |-> self, decals |-> self,
                           master |-> None, parts |-> ls, assemblies |-> ls,
                           previous |-> prev]
                     ELSE h.objs[i]],
        maps  |-> [i \in 1..n |->
                     IF i = self
                     THEN [paints |-> [k \in ps |-> "False"], decals |-> [k \in ds |-> "False"]]
                     ELSE h.maps[i]],
        lists |-> h.lists]

\* o.master = v on a bare Part: single assignment
\* a setter that stores the Step whether or not a master is set (the
\* write-once check of Part.master removed)
Part_master_overwrite(h, self, v) ==
    IF ~isStep(h.objs, v) THEN [h |-> h, err |-> "TypeError"]
    ELSE [h |-> [h EXCEPT !.objs[self].master = v], err |-> "none"]

Part_master(h, self, v) ==
    IF ~isStep(h.objs, v) THEN [h |-> h, err |-> "TypeError"]
    ELSE IF h.objs[self].master = None
         THEN [h |-> [h EXCEPT !.objs[self].master = v], err |-> "none"]
         ELSE [h |-> h, err |-> "ValueError"]

\* a loop that stops at any status that is not True (`if not v` for
\* `if v is False`)
valuesLoop_truthy(m, ks) == \A k \in ks : m[k] = "True"

RECURSIVE valuesLoop(_, _)
\* `for v in m.values(): if v is False: return False` and `return True`
valuesLoop(m, ks) ==
    IF ks = {} THEN TRUE
    ELSE LET k == CHOOSE k \in ks : TRUE
         IN IF m[k] = "False" THEN FALSE ELSE valuesLoop(m, ks \ {k})

\* Part.isPainted / Part.isDecaled / Part.isComplete
Part_isPainted(h, self) == valuesLoop(paintsOf(h, self), DOMAIN paintsOf(h, self))
Part_isDecaled(h, self) == valuesLoop(decalsOf(h, self), DOMAIN decalsOf(h, self))

\* PaintMap.__setitem__(key, value) on the map m: TypeError for a key whose
\* type is Color and for a value outside (True, False, None)
setitem(m, k, v) ==
    IF typeOf(k) = "Color" THEN [m |-> m, err |-> "TypeError"]
    ELSE IF v \notin Status THEN [m |-> m, err |-> "TypeError"]
    ELSE [m |-> [x \in DOMAIN m \cup {k} |-> IF x = k THEN v ELSE m[x]], err |-> "none"]

\* dict.get(k): the value stored under k, and None without one
dictGet(m, k) == IF k \in DOMAIN m THEN m[k] ELSE "None"

\* Part.checkPaint(paint) / Part.checkDecal(decal)
checkPaint(h, self, paint) ==
    IF typeOf(paint) # "Paint" THEN [err |-> "TypeError", rtn |-> "None"]
    ELSE [err |-> "none", rtn |-> dictGet(paintsOf(h, self), paint)]
checkDecal(h, self, decal) ==
    IF typeOf(decal) # "Decal" THEN [err |-> "TypeError", rtn |-> "None"]
    ELSE [err |-> "none", rtn |-> dictGet(decalsOf(h, self), decal)]

\* --------------------------------------------------------------- Assembly
\* Assembly._parseParts: every element must be exactly a Part or an Assembly
parseParts(h, items) ==
    [err        |-> IF \E i \in 1..Len(items) : clsOf(h.objs, items[i]) \notin {"Part", "Assembly"}
                    THEN "TypeError" ELSE "none",
     partList   |-> items,
     assemblies |-> SelectSeq(items, LAMBDA p : clsOf(h.objs, p) = "Assembly"),
     paints     |-> UNION {keys(h, items[i], "paints") : i \in 1..Len(items)},
     decals     |-> UNION {keys(h, items[i], "decals") : i \in 1..Len(items)}]

\* The argument of a constructor or of attach is one object (kind "single"),
\* a sequence of objects ("seq") or a value that is neither ("bad").
\* `if type(parts) == Part or type(parts) == Assembly: parts = (parts,)`,
\* then `isinstance(parts, Sequence)`
asSequence(h, arg) ==
    IF arg.kind = "single"
    THEN IF clsOf(h.objs, arg.items[1]) \in {"Part", "Assembly"}
         THEN [err |-> "none", items |-> arg.items]
         ELSE [err |-> "TypeError", items |-> <<>>]
    ELSE IF arg.kind = "seq" THEN [err |-> "none", items |-> arg.items]
    ELSE [err |-> "TypeError", items |-> <<>>]

\* Assembly.__init__(id, parts) on the object at reference self
AssemblyInit(h, self, cls, id, arg, prev) ==
    LET sq == asSequence(h, arg)
        pp == parseParts(h, sq.items)
        l == newList(self)
        h1 == [h EXCEPT !.lists = (l :> [parts |-> pp.partList, assemblies |-> pp.assemblies])
                                  @@ h.lists]
    IN IF sq.err # "none" THEN [h |-> h, err |-> sq.err]
       ELSE IF pp.err # "none" THEN [h |-> h, err |-> pp.err]
       ELSE [h |-> PartInit(h1, self, cls, id, pp.paints, pp.decals, l, prev),
             err |-> "none"]

RECURSIVE Assembly_master(_, _, _)
RECURSIVE masterLoop(_, _, _, _, _)
\* a loop that stamps the unowned members themselves and nothing below them
masterLoop_flat(h, ps, i, v, changed) ==
    IF i > Len(ps) THEN [h |-> h, err |-> "none", changed |-> changed]
    ELSE IF h.objs[ps[i]].master # None THEN masterLoop(h, ps, i + 1, v, changed)
    ELSE LET r == Part_master(h, ps[i], v)
         IN IF r.err # "none" THEN [h |-> r.h, err |-> r.err, changed |-> changed]
            ELSE masterLoop(r.h, ps, i + 1, v, TRUE)

\* the `for p in self._parts` loop of the Assembly master setter:
\* `if p._master is None: p.master = value`, which dispatches on p's class
masterLoop(h, ps, i, v, changed) ==
    IF i > Len(ps) THEN [h |-> h, err |-> "none", changed |-> changed]
    ELSE IF h.objs[ps[i]].master # None THEN masterLoop(h, ps, i + 1, v, changed)
    ELSE LET r == IF isAssembly(h.objs, ps[i]) THEN Assembly_master(h, ps[i], v)
                  ELSE Part_master(h, ps[i], v)
         IN IF r.err # "none" THEN [h |-> r.h, err |-> r.err, changed |-> changed]
            ELSE masterLoop(r.h, ps, i + 1, v, TRUE)

\* a setter that does not raise when nothing was stamped
Assembly_master_quiet(h, self, v) ==
    IF ~isStep(h.objs, v) THEN [h |-> h, err |-> "TypeError"]
    ELSE LET changed0 == h.objs[self].master = None
             h1 == IF changed0 THEN [h EXCEPT !.objs[self].master = v] ELSE h
             r == masterLoop(h1, partsOf(h, self), 1, v, changed0)
         IN [h |-> r.h, err |-> r.err]

\* o.master = v on an Assembly (or Step): stamps self and the unowned
\* members, and raises when nothing was stamped
Assembly_master(h, self, v) ==
    IF ~isStep(h.objs, v) THEN [h |-> h, err |-> "TypeError"]
    ELSE LET changed0 == h.objs[self].master = None
             h1 == IF changed0 THEN [h EXCEPT !.objs[self].master = v] ELSE h
             r == masterLoop(h1, partsOf(h, self), 1, v, changed0)
         IN IF r.err # "none" THEN [h |-> r.h, err |-> r.err]
            ELSE IF ~r.changed THEN [h |-> r.h, err |-> "ValueError"]
            ELSE [h |-> r.h, err |-> "none"]

\* `p.master = v`: the setter of p's class
master(h, p, v) ==
    IF isAssembly(h.objs, p) THEN Assembly_master(h, p, v) ELSE Part_master(h, p, v)

\* Assembly.attach(parts): master is reset first; the member lists are
\* replaced by new lists; new keys are added to the status maps in place
attach(h, self, arg) ==
    LET h1 == [h EXCEPT !.objs[self].master = None]
        sq == asSequence(h, arg)
        pp == parseParts(h, sq.items)
        me == h.objs[self]
        l == nextList(h, self)
        pm == paintsOf(h, self)
        dm == decalsOf(h, self)
    IN IF sq.err # "none" THEN [h |-> h1, err |-> sq.err]
       ELSE IF pp.err # "none" THEN [h |-> h1, err |-> pp.err]
       ELSE [h |-> collect(
                     [objs  |-> [h1.objs EXCEPT ![self].parts = l, ![self].assemblies = l],
                      lists |-> (l :> [parts |-> partsOf(h, self) \o pp.partList,
                                       assemblies |-> assembliesOf(h, self) \o pp.assemblies])
                                @@ h.lists,
                      maps  |-> [h.maps EXCEPT
                                   ![me.paints].paints =
                                       [k \in DOMAIN pm \cup pp.paints |->
                                          IF k \in DOMAIN pm THEN pm[k] ELSE "False"],
                                   ![me.decals].decals =
                                       [k \in DOMAIN dm \cup pp.decals |->
                                          IF k \in DOMAIN dm THEN dm[k] ELSE "False"]]]),
             err |-> "none"]

\* a completion test that reads the object's own paint map, whatever its
\* class
isPainted_ownMap(h, o) == Part_isPainted(h, o)

RECURSIVE isPainted(_, _)
\* Assembly.isPainted: `for p in self._parts: if p.isPainted() is False:
\* return False`, and Part.isPainted for a bare Part
isPainted(h, o) ==
    IF isAssembly(h.objs, o)
    THEN \A i \in 1..Len(partsOf(h, o)) : isPainted(h, partsOf(h, o)[i])
    ELSE Part_isPainted(h, o)

RECURSIVE isDecaled(_, _)
\* Assembly.isDecaled, and Part.isDecaled for a bare Part
isDecaled(h, o) ==
    IF isAssembly(h.objs, o)
    THEN \A i \in 1..Len(partsOf(h, o)) : isDecaled(h, partsOf(h, o)[i])
    ELSE Part_isDecaled(h, o)

RECURSIVE hash(_, _)
\* a hash that takes the statuses stored in the two maps into account
hash_withStatus(h, o) ==
    LET part == <<h.objs[o].id, <<"PaintMap", paintsOf(h, o)>>,
                  <<"HashMap", decalsOf(h, o)>>>>
        assembly == <<part, [i \in 1..Len(partsOf(h, o)) |-> hash(h, partsOf(h, o)[i])]>>
    IN IF h.objs[o].cls = "Part" THEN part
       ELSE IF h.objs[o].cls = "Assembly" THEN assembly
       ELSE <<"Step", assembly>>

\* __hash__: Part hashes (id, paints, decals), each map hashing its class
\* name and its keys; Assembly adds the tuple of its members; Step adds its
\* class name.  The hash is modelled by the value that is hashed.
hash(h, o) ==
    LET part == <<h.objs[o].id, <<"PaintMap", DOMAIN paintsOf(h, o)>>,
                  <<"HashMap", DOMAIN decalsOf(h, o)>>>>
        assembly == <<part, [i \in 1..Len(partsOf(h, o)) |-> hash(h, partsOf(h, o)[i])]>>
    IN IF h.objs[o].cls = "Part" THEN part
       ELSE IF h.objs[o].cls = "Assembly" THEN assembly
       ELSE <<"Step", assembly>>

\* `p == x` for a member p (a Part or an Assembly) and a Part, Assembly or
\* Step x: Part.__eq__ wants type(x) == Part, Assembly.__eq__ wants an
\* Assembly instance, and both compare hashes; a Step's hash differs from
\* an Assembly's by construction
eq(h, p, x) ==
    IF h.objs[p].cls # h.objs[x].cls THEN FALSE ELSE hash(h, p) = hash(h, x)

\* the test of the list comprehensions of Assembly.get: `p.id == part` for a
\* str, `p == part` for a Part
matches(h, p, x) ==
    IF x.kind = "str" THEN h.objs[p].id = x.id ELSE eq(h, p, x.obj)

RECURSIVE getRtn(_, _, _, _)
RECURSIVE getLoop(_, _, _, _, _)
\* a loop that searches a sub-assembly only if recursive, whatever its master
getLoop_flagOnly(h, self, i, x, recursive) ==
    LET as == assembliesOf(h, self)
    IN IF i > Len(as) THEN <<>>
       ELSE (IF recursive THEN getRtn(h, as[i], x, TRUE) ELSE <<>>)
            \o getLoop(h, self, i + 1, x, recursive)

\* `for a in self._assemblies`: a sub-assembly with this assembly's master is
\* searched with the caller's recursive, another one only if recursive
getLoop(h, self, i, x, recursive) ==
    LET as == assembliesOf(h, self)
    IN IF i > Len(as) THEN <<>>
       ELSE (IF h.objs[as[i]].master = h.objs[self].master
             THEN getRtn(h, as[i], x, recursive)
             ELSE IF recursive THEN getRtn(h, as[i], x, TRUE)
             ELSE <<>>)
            \o getLoop(h, self, i + 1, x, recursive)

\* the list Assembly.get builds
getRtn(h, self, x, recursive) ==
    SelectSeq(partsOf(h, self), LAMBDA p : matches(h, p, x))
    \o getLoop(h, self, 1, x, recursive)

\* Assembly.get(part, recursive): part is a str or a Part, else TypeError
get(h, self, x, recursive) ==
    IF x.kind \in {"str", "obj"}
    THEN [err |-> "none", rtn |-> getRtn(h, self, x, recursive)]
    ELSE [err |-> "TypeError", rtn |-> <<>>]

RECURSIVE getUnpaintedRtn(_, _, _, _)
RECURSIVE getUnpaintedLoop(_, _, _, _, _)
\* `for a in self._assemblies: unpainted += a.getUnpainted(paint, recursive)`
getUnpaintedLoop(h, self, i, paint, recursive) ==
    LET as == assembliesOf(h, self)
    IN IF i > Len(as) THEN <<>>
       ELSE getUnpaintedRtn(h, as[i], paint, recursive)
            \o getUnpaintedLoop(h, self, i + 1, paint, recursive)

\* the list Assembly.getUnpainted builds: the members p with
\* `p.paints.get(paint) is False`, then what the sub-assemblies return
getUnpaintedRtn(h, self, paint, recursive) ==
    SelectSeq(partsOf(h, self), LAMBDA p : dictGet(paintsOf(h, p), paint) = "False")
    \o getUnpaintedLoop(h, self, 1, paint, recursive)

\* Assembly.getUnpainted(paint, recursive): paint is None or a Paint
getUnpainted(h, self, paint, recursive) ==
    IF paint # NoPaint /\ typeOf(paint) # "Paint"
    THEN [err |-> "TypeError", rtn |-> <<>>]
    ELSE [err |-> "none", rtn |-> getUnpaintedRtn(h, self, paint, recursive)]

\* ------------------------------------------------------------------ Step
\* copy.copy(p): a new object whose slots hold the same values, so the
\* status maps, the member lists and the members are shared with p
shallowCopy(h, p) ==
    [h EXCEPT !.objs = Append(h.objs, h.objs[p]),
              !.maps = Append(h.maps, [paints |-> <<>>, decals |-> <<>>])]

RECURSIVE stepLoop(_, _, _, _, _)
\* the `for p in parts` loop of Step.__init__: an Assembly is copied into
\* tmp, then the element that was passed is stamped
stepLoop(h, items, i, self, tmp) ==
    IF i > Len(items) THEN [h |-> h, err |-> "none", tmp |-> tmp]
    ELSE LET p == items[i]
             c == clsOf(h.objs, p)
         IN IF c \notin {"Part", "Assembly"}
            THEN [h |-> h, err |-> "TypeError", tmp |-> tmp]
            ELSE LET h1 == IF c = "Assembly" THEN shallowCopy(h, p) ELSE h
                     t1 == Append(tmp, IF c = "Assembly" THEN Len(h.objs) + 1 ELSE p)
                     r == master(h1, p, self)
                 IN IF r.err # "none"
                    THEN [h |-> r.h, err |-> r.err, tmp |-> t1]
                    ELSE stepLoop(r.h, items, i + 1, self, t1)

\* the three branches of Step.__init__ on its parts argument; tmp is the
\* partsArg handed to Assembly.__init__
stepMembers(h, self, arg) ==
    IF arg.kind = "single" /\ clsOf(h.objs, arg.items[1]) = "Part"
    THEN LET r == Part_master(h, arg.items[1], self)
         IN [h |-> r.h, err |-> r.err, tmp |-> arg.items]
    ELSE IF arg.kind = "single" /\ clsOf(h.objs, arg.items[1]) = "Assembly"
    THEN LET r == Assembly_master(h, arg.items[1], self)
         IN IF r.err # "none" THEN [h |-> r.h, err |-> r.err, tmp |-> <<>>]
            ELSE [h |-> shallowCopy(r.h, arg.items[1]), err |-> "none",
                  tmp |-> <<Len(r.h.objs) + 1>>]
    ELSE IF arg.kind = "seq" THEN stepLoop(h, arg.items, 1, self, <<>>)
    ELSE [h |-> h, err |-> "TypeError", tmp |-> <<>>]

\* Step.__init__(name, parts, previous) on a new object at reference self.
\* When it raises, the stamps already made stay; a Step that raised before
\* it stamped anything is referred to by nothing and is dropped.
StepInit(h, self, id, arg, previous) ==
    LET h0 == [h EXCEPT !.objs = Append(h.objs,
                                   [cls |-> "Step", id |-> Unset, paints |-> None,
                                    decals |-> None, master |-> None, parts |-> NoList,
                                    assemblies |-> NoList, previous |-> previous]),
                        !.maps = Append(h.maps, [paints |-> <<>>, decals |-> <<>>])]
        m == stepMembers(h0, self, arg)
    IN IF previous # None /\ ~isStep(h.objs, previous) THEN [h |-> h, err |-> "TypeError"]
       ELSE IF m.err # "none"
       THEN [h |-> IF \E o \in 1..Len(m.h.objs) : m.h.objs[o].master = self THEN m.h ELSE h,
             err |-> m.err]
       ELSE AssemblyInit(m.h, self, "Step", id, [kind |-> "seq", items |-> m.tmp], previous)

\* ----------------------------------------------------------------- Model
\* `entity in registry` as nextStep writes it: the registry's keys are ids
\* (str) or (handle, PaintType) tuples while the operand is a Part, Paint
\* or Decal object, whose __eq__ returns NotImplemented for such a key: a
\* key matches only if it has the operand's type and value
contains(reg, keyType, entityType, e) ==
    \E k \in DOMAIN reg : keyType = entityType /\ k = e

\* d[k] = v
put(reg, k, v) == [x \in DOMAIN reg \cup {k} |-> IF x = k THEN v ELSE reg[x]]

RECURSIVE foldMembers(_, _, _, _)
\* `for part in step.parts: if part not in self._parts:
\* self._parts[part.id] = part`, and the same loop over step.assemblies
foldMembers(reg, os, ps, i) ==
    IF i > Len(ps) THEN reg
    ELSE foldMembers(IF contains(reg, "str", os[ps[i]].cls, ps[i]) THEN reg
                     ELSE put(reg, os[ps[i]].id, ps[i]),
                     os, ps, i + 1)

\* the registry key of a paint: (code, type) or, without a code, (name, type)
paintKey(p) == IF code(p) # "" THEN <<code(p), type(p)>> ELSE <<name(p), type(p)>>

RECURSIVE foldPaints(_, _, _)
\* `for paint in step.paints: if paint not in self._paints: ...`
foldPaints(reg, ks, i) ==
    IF i > Len(ks) THEN reg
    ELSE foldPaints(IF contains(reg, "tuple", "Paint", ks[i]) THEN reg
                    ELSE put(reg, paintKey(ks[i]), ks[i]),
                    ks, i + 1)

RECURSIVE foldDecals(_, _, _)
\* `for decal in step.decals: if decal not in self._decals: ...`
foldDecals(reg, ks, i) ==
    IF i > Len(ks) THEN reg
    ELSE foldDecals(IF contains(reg, "str", "Decal", ks[i]) THEN reg
                    ELSE put(reg, ks[i], ks[i]),
                    ks, i + 1)

\* seq[i] for a Python list: a negative index counts from the end
index(seq, i) ==
    IF i >= 0 /\ i < Len(seq) THEN [err |-> "none", step |-> seq[i + 1]]
    ELSE IF i < 0 /\ i >= -Len(seq) THEN [err |-> "none", step |-> seq[Len(seq) + i + 1]]
    ELSE [err |-> "IndexError", step |-> None]

\* Model.getStep(number) for an int: `return self._steps[number - 1]`
getStep(n) == index(steps, n - 1)

\* Model.__getitem__(item) and Model.__len__()
getitem(i) == index(steps, i)
len == Len(steps)

\* --------------------------------------------------------------- actions
Init ==
    /\ objs = <<>>
    /\ maps = <<>>
    /\ lists = <<>>
    /\ steps = <<>>
    /\ parts = <<>>
    /\ assemblies = <<>>
    /\ paints = <<>>
    /\ decals = <<>>

\* the (paints, decals) arguments Parts are constructed with
PartArgs == {<<{}, {}>>, <<{"pa"}, {}>>, <<{"pb"}, {"d1"}>>}
Plain == {<<{}, {}>>}

\* the objects a caller holds: the fully constructed ones
Members == {o \in Refs : objs[o].id # Unset}
Steps == {o \in Members : objs[o].cls = "Step"}
\* what a caller passes as a member: a Part, an Assembly or (None) a value
\* that is neither
Elems == {o \in Members : objs[o].cls # "Step"} \cup {None}
Args == {[kind |-> "single", items |-> <<o>>] : o \in Elems \ {None}}
        \cup {[kind |-> "seq", items |-> s] : s \in SeqsUpTo(Elems, MaxArgs)}
        \cup {[kind |-> "bad", items |-> <<>>]}
ShortArgs == {a \in Args : Len(a.items) <= 1}

count(os, cls) == Cardinality({o \in 1..Len(os) : os[o].cls = cls})

SetHeap(h) ==
    /\ objs' = h.objs
    /\ maps' = h.maps
    /\ lists' = h.lists

\* Part(id, paints, decals)
NewPart(id, ps, ds) ==
    /\ Len(objs) < MaxObj
    /\ count(objs, "Part") < MaxParts
    /\ SetHeap(PartInit(Heap, Len(objs) + 1, "Part", id, ps, ds, NoList, None))
    /\ UNCHANGED modelVars

\* Assembly(id, parts); an object whose constructor raised is dropped
NewAssembly(id, arg) ==
    /\ Len(objs) < MaxObj
    /\ count(objs, "Assembly") < MaxAsm
    /\ SetHeap(AssemblyInit(Heap, Len(objs) + 1, "Assembly", id, arg, None).h)
    /\ UNCHANGED modelVars

\* a.attach(parts)
Attach(a, arg) ==
    /\ isAssembly(objs, a)
    /\ LET r == attach(Heap, a, arg)
           built == {l \in liveLists(r.h.objs) : l[2] > 0}
       IN /\ Cardinality(built) <= MaxAttach
          /\ \A l \in built : l[2] <= MaxAttach
          /\ SetHeap(r.h)
    /\ UNCHANGED modelVars

\* o.master = v
SetMaster(o, v) ==
    /\ SetHeap(master(Heap, o, v).h)
    /\ UNCHANGED modelVars

\* a nextStep that hands no previous step to the Step it constructs
nextStep_noPrevious(id, arg) ==
    LET self == Len(objs) + 1
        r == StepInit(Heap, self, id, arg, None)
    IN /\ count(objs, "Step") < MaxSteps
       /\ Len(r.h.objs) <= MaxObj
       /\ count(r.h.objs, "Assembly") <= MaxAsm
       /\ SetHeap(r.h)
       /\ IF r.err # "none" THEN UNCHANGED modelVars
          ELSE /\ steps' = Append(steps, self)
               /\ parts' = foldMembers(parts, r.h.objs, partsOf(r.h, self), 1)
               /\ assemblies' = foldMembers(assemblies, r.h.objs, assembliesOf(r.h, self), 1)
               /\ \E ord \in SetToSeqs(DOMAIN paintsOf(r.h, self)) :
                     paints' = foldPaints(paints, ord, 1)
               /\ \E ord \in SetToSeqs(DOMAIN decalsOf(r.h, self)) :
                     decals' = foldDecals(decals, ord, 1)

\* model.nextStep(name, parts); the step's paint and decal keys are iterated
\* in an order that depends on their hashes
nextStep(id, arg) ==
    LET self == Len(objs) + 1
        previous == IF Len(steps) > 0 THEN steps[Len(steps)] ELSE None
        r == StepInit(Heap, self, id, arg, previous)
    IN /\ count(objs, "Step") < MaxSteps
       /\ Len(r.h.objs) <= MaxObj
       /\ count(r.h.objs, "Assembly") <= MaxAsm
       /\ SetHeap(r.h)
       /\ IF r.err # "none" THEN UNCHANGED modelVars
          ELSE /\ steps' = Append(steps, self)
               /\ parts' = foldMembers(parts, r.h.objs, partsOf(r.h, self), 1)
               /\ assemblies' = foldMembers(assemblies, r.h.objs, assembliesOf(r.h, self), 1)
               /\ \E ord \in SetToSeqs(DOMAIN paintsOf(r.h, self)) :
                     paints' = foldPaints(paints, ord, 1)
               /\ \E ord \in SetToSeqs(DOMAIN decalsOf(r.h, self)) :
                     decals' = foldDecals(decals, ord, 1)

\* the status entries that differ from the initial False
flips(ms) ==
    Cardinality({e \in (1..Len(ms)) \X {"paints", "decals"} \X (Paints \cup Decals) :
                   /\ e[3] \in DOMAIN ms[e[1]][e[2]]
                   /\ ms[e[1]][e[2]][e[3]] # "False"})

\* o.paints[k] = v / o.decals[k] = v for a tracked key: a status update
SetStatus(o, which, k, v) ==
    LET new == [maps EXCEPT ![IF which = "paints" THEN objs[o].paints ELSE objs[o].decals][which][k] = v]
    IN /\ k \in keys(Heap, o, which)
       /\ flips(new) <= MaxFlips
       /\ maps' = new
       /\ UNCHANGED <<objs, lists>>
       /\ UNCHANGED modelVars

\* o.paints[k] = v for any key and value a caller may pass
PaintsSetItem(o, k, v) ==
    /\ maps' = [maps EXCEPT ![objs[o].paints].paints = setitem(@, k, v).m]
    /\ UNCHANGED <<objs, lists>>
    /\ UNCHANGED modelVars

\* ------------------------------------------------------- specifications
DoNewPart == \E id \in Ids, pa \in PartArgs : NewPart(id, pa[1], pa[2])
DoNewAssembly == \E id \in AsmIds, arg \in Args : NewAssembly(id, arg)
DoAttach == \E a \in Members, arg \in Args : Attach(a, arg)
DoSetMaster == \E o \in Members, v \in Steps \cup {None} : SetMaster(o, v)
DoNextStep == \E id \in StepIds, arg \in Args : nextStep(id, arg)
DoSetStatus ==
    \E o \in Members, which \in {"paints", "decals"}, k \in Paints \cup Decals, v \in Status :
        SetStatus(o, which, k, v)

\* every operation of the caller
Next ==
    \/ DoNewPart
    \/ DoNewAssembly
    \/ DoAttach
    \/ DoSetMaster
    \/ DoNextStep
    \/ DoSetStatus

Spec == Init /\ [][Next]_vars

\* building a model: the constructors and nextStep
NextBuild ==
    \/ DoNewPart
    \/ DoNewAssembly
    \/ DoNextStep

SpecBuild == Init /\ [][NextBuild]_vars

\* ownership: building from Parts without paints, attach, and explicit
\* assignments to master
NextOwner ==
    \/ \E id \in Ids, pa \in Plain : NewPart(id, pa[1], pa[2])
    \/ \E id \in AsmIds, arg \in ShortArgs : NewAssembly(id, arg)
    \/ \E id \in StepIds, arg \in ShortArgs : nextStep(id, arg)
    \/ \E a \in Members, arg \in ShortArgs : Attach(a, arg)
    \/ DoSetMaster

SpecOwner == Init /\ [][NextOwner]_vars

\* searching: building from Parts without paints, and explicit assignments
\* to master (no attach: the object graph stays acyclic)
NextGet ==
    \/ \E id \in Ids, pa \in Plain : NewPart(id, pa[1], pa[2])
    \/ \E id \in AsmIds, arg \in ShortArgs : NewAssembly(id, arg)
    \/ \E id \in StepIds, arg \in ShortArgs : nextStep(id, arg)
    \/ DoSetMaster

SpecGet == Init /\ [][NextGet]_vars

\* status maps: Parts and assignments to their paint maps
NextKeys ==
    \/ \E pa \in PartArgs : NewPart("x", pa[1], pa[2])
    \/ \E o \in Members, k \in Paints \cup Colors, v \in Status \cup {Other} :
          PaintsSetItem(o, k, v)

SpecKeys == Init /\ [][NextKeys]_vars

\* equality: Parts of both ids, steps that stamp them, and status updates
NextEq ==
    \/ DoNewPart
    \/ \E id \in StepIds, arg \in ShortArgs : nextStep(id, arg)
    \/ DoSetStatus

SpecEq == Init /\ [][NextEq]_vars

\* key sets: building from Parts with paints and decals, and attach
NextUnion ==
    \/ \E pa \in PartArgs : NewPart("x", pa[1], pa[2])
    \/ \E id \in AsmIds, arg \in ShortArgs : NewAssembly(id, arg)
    \/ \E id \in StepIds, arg \in ShortArgs : nextStep(id, arg)
    \/ \E a \in Members, arg \in ShortArgs : Attach(a, arg)

SpecUnion == Init /\ [][NextUnion]_vars

\* completion: building from Parts of one id, and status updates
NextStatus ==
    \/ \E pa \in PartArgs : NewPart("x", pa[1], pa[2])
    \/ DoNewAssembly
    \/ DoNextStep
    \/ DoSetStatus

SpecStatus == Init /\ [][NextStatus]_vars

\* ================================================================ claims
\* Model.nextStep's Step constructor, applied to the current heap
construct(h, arg) ==
    StepInit(h, Len(h.objs) + 1, "s", arg,
             IF Len(steps) > 0 THEN steps[Len(steps)] ELSE None)
single(o) == [kind |-> "single", items |-> <<o>>]
seq(items) == [kind |-> "seq", items |-> items]
\* the arguments whose members are Parts and Assemblies that have no master
Unowned(arg) ==
    /\ arg.kind # "bad"
    /\ \A i \in 1..Len(arg.items) : arg.items[i] # None /\ objs[arg.items[i]].master = None

\* C1: a registry never replaces the entity registered under a key: every
\* key of model.parts, model.assemblies, model.paints and model.decals keeps
\* the entity it was first given, whatever later steps supply
C1_FirstSeenWins ==
    [][/\ \A k \in DOMAIN parts : k \in DOMAIN parts' /\ parts'[k] = parts[k]
       /\ \A k \in DOMAIN assemblies : k \in DOMAIN assemblies' /\ assemblies'[k] = assemblies[k]
       /\ \A k \in DOMAIN paints : k \in DOMAIN paints' /\ paints'[k] = paints[k]
       /\ \A k \in DOMAIN decals : k \in DOMAIN decals' /\ decals'[k] = decals[k]]_vars

\* C4: when a Step is constructed from unowned members (one Part, one
\* Assembly or a sequence of them), every member stored in step.parts, a
\* bare Part or the Step's copy of an Assembly, has that Step as master
C4_MembersOwned ==
    \A arg \in Args :
        LET r == construct(Heap, arg)
            self == Len(objs) + 1
        IN (Unowned(arg) /\ r.err = "none") =>
              \A i \in 1..Len(partsOf(r.h, self)) :
                  r.h.objs[partsOf(r.h, self)[i]].master = self

\* C5: a bare Part that is a member of a Step and owned by it can be given
\* to the construction of a second Step: the construction succeeds and both
\* Steps hold the same Part object
C5_SharedPart ==
    \A s \in Steps, p \in Refs :
        (objs[p].cls = "Part" /\ objs[p].master = s /\ p \in Range(partsOf(Heap, s))) =>
            \A arg \in {single(p), seq(<<p>>)} :
                LET r == construct(Heap, arg)
                IN /\ r.err = "none"
                   /\ p \in Range(partsOf(r.h, Len(objs) + 1))
                   /\ p \in Range(partsOf(r.h, s))

\* C6: constructing a Step twice from the same Assembly succeeds both times,
\* and attach on the assembly held by one of the two Steps leaves the member
\* list seen through the other Step as it was
C6_TwiceFromSameAssembly ==
    \A a \in Members : objs[a].cls = "Assembly" =>
        \A arg \in {single(a), seq(<<a>>)} :
            LET r1 == construct(Heap, arg)
                s1 == Len(objs) + 1
                r2 == construct(r1.h, arg)
                s2 == Len(r1.h.objs) + 1
                c1 == partsOf(r2.h, s1)[1]
                c2 == partsOf(r2.h, s2)[1]
            IN r1.err = "none" =>
                  /\ r2.err = "none"
                  /\ \A x \in Args :
                        /\ partsOf(attach(r2.h, c1, x).h, c2) = partsOf(r2.h, c2)
                        /\ partsOf(attach(r2.h, c2, x).h, c1) = partsOf(r2.h, c1)

\* the step numbers asked for
StepNumbers == (0 - MaxSteps - 1)..(MaxSteps + 1)

\* C8: getStep(n) is the n-th step appended when 1 <= n <= len(model), so
\* that getStep(1) is model[0], and fails with an index error for every
\* other integer, 0 and the negative numbers included
C8_GetStepRange ==
    \A n \in StepNumbers :
        IF 1 <= n /\ n <= len
        THEN /\ getStep(n) = [err |-> "none", step |-> steps[n]]
             /\ getStep(1) = getitem(0)
        ELSE getStep(n).err = "IndexError"

C3_PartMasterWriteOnce ==
    /\ [](\A p \in Refs, v \in Steps : objs[p].cls = "Part" =>
             LET r == Part_master(Heap, p, v)
             IN IF objs[p].master = None
                THEN r.err = "none" /\ r.h.objs[p].master = v
                ELSE r.err = "ValueError" /\ r.h = Heap)
    /\ [][\A p \in Refs : (objs[p].cls = "Part" /\ objs[p].master # None) =>
             objs'[p].master = objs[p].master]_vars

\* a bare Part that has a master while another Step exists to assign
C3_Witness ==
    \E p \in Refs, v \in Steps :
        objs[p].cls = "Part" /\ objs[p].master # None /\ objs[p].master # v

\* C7: for an Assembly whose master is S1, attach leaves master unset; the
\* assignment master = S1 that follows succeeds, stores S1 and stamps the
\* attached members that had no master; the same assignment made again
\* raises and changes nothing
C7_AttachThenRestamp ==
    \A a \in Members, arg \in ShortArgs :
        LET s1 == objs[a].master
            r1 == attach(Heap, a, arg)
            r2 == master(r1.h, a, s1)
            r3 == master(r2.h, a, s1)
        IN (isAssembly(objs, a) /\ s1 # None /\ r1.err = "none") =>
              /\ r1.h.objs[a].master = None
              /\ r2.err = "none"
              /\ r2.h.objs[a].master = s1
              /\ \A i \in 1..Len(arg.items) :
                    r1.h.objs[arg.items[i]].master = None =>
                        r2.h.objs[arg.items[i]].master = s1
              /\ r3.err = "ValueError"
              /\ r3.h = r2.h

\* an Assembly that was attached to and stamped again: it has a master, its
\* member list was built by attach, and every member has that master
C7_Witness ==
    \E a \in Members :
        /\ objs[a].cls = "Assembly"
        /\ objs[a].master # None
        /\ objs[a].parts[2] > 0
        /\ Len(partsOf(Heap, a)) > 0
        /\ \A i \in 1..Len(partsOf(Heap, a)) :
              objs[partsOf(Heap, a)[i]].master = objs[a].master

RECURSIVE descendants(_)
\* the objects reachable from a set of objects through member lists
descendants(S) ==
    LET T == S \cup UNION {Range(partsOf(Heap, o)) : o \in {o \in S : isAssembly(objs, o)}}
    IN IF T = S THEN S ELSE descendants(T)

\* C9: an Assembly or Step is painted (decaled) iff every direct member is,
\* which through nested assemblies means iff every bare Part below it is;
\* its own status maps play no part and an assembly without members is
\* complete
C9_StructuralCompletion ==
    \A a \in Members : isAssembly(objs, a) =>
        LET leaves == {p \in descendants({a}) : objs[p].cls = "Part"}
            direct == Range(partsOf(Heap, a))
        IN /\ isPainted(Heap, a) <=> \A m \in direct : isPainted(Heap, m)
           /\ isPainted(Heap, a) <=> \A p \in leaves : Part_isPainted(Heap, p)
           /\ isDecaled(Heap, a) <=> \A m \in direct : isDecaled(Heap, m)
           /\ isDecaled(Heap, a) <=> \A p \in leaves : Part_isDecaled(Heap, p)
           /\ direct = {} => isPainted(Heap, a) /\ isDecaled(Heap, a)

\* an assembly that is painted although its own paint map holds a False
C9_Witness ==
    \E a \in Members :
        /\ isAssembly(objs, a)
        /\ Len(partsOf(Heap, a)) > 0
        /\ \E k \in DOMAIN paintsOf(Heap, a) : paintsOf(Heap, a)[k] = "False"
        /\ isPainted(Heap, a)

\* what get is asked for: an id, or a Part, Assembly or Step
Wanted == {[kind |-> "str", id |-> id, obj |-> None] : id \in Ids \cup AsmIds}
          \cup {[kind |-> "obj", id |-> Unset, obj |-> o] : o \in Members}

RECURSIVE searched(_, _)
\* the assemblies get looks into: the start, the sub-assemblies that have
\* the master of the assembly holding them and, if recursive, all the others
searched(S, recursive) ==
    LET T == S \cup {c \in UNION {Range(assembliesOf(Heap, b)) : b \in S} :
                       \/ recursive
                       \/ \E b \in S : /\ c \in Range(assembliesOf(Heap, b))
                                       /\ objs[c].master = objs[b].master}
    IN IF T = S THEN S ELSE searched(T, recursive)

\* C10: get returns the direct members that match (by id for a str, by
\* equality for a Part), then the matches found in the sub-assemblies that
\* share the master of the assembly holding them, and those of the other
\* sub-assemblies only if recursive is true
C10_GetScope ==
    \A a \in Members, x \in Wanted, recursive \in BOOLEAN : isAssembly(objs, a) =>
        LET r == get(Heap, a, x, recursive)
            direct == SelectSeq(partsOf(Heap, a), LAMBDA p : matches(Heap, p, x))
        IN /\ r.err = "none"
           /\ Len(r.rtn) >= Len(direct)
           /\ SubSeq(r.rtn, 1, Len(direct)) = direct
           /\ Range(r.rtn) = {m \in UNION {Range(partsOf(Heap, b)) :
                                             b \in searched({a}, recursive)} :
                                matches(Heap, m, x)}

\* an assembly for which recursive decides what get returns
C10_Witness ==
    \E a \in Members, x \in Wanted :
        /\ isAssembly(objs, a)
        /\ get(Heap, a, x, TRUE).rtn # get(Heap, a, x, FALSE).rtn

\* C11: an assignment to a paint map with a key that is a Color or an
\* instance of a subtype of Color raises TypeError and leaves the map as it
\* was, and no paint map ever holds such a key
C11_NoColorKey ==
    \A p \in Refs :
        /\ \A k \in DOMAIN paintsOf(Heap, p) : typeOf(k) \notin {"Color", "ColorMix"}
        /\ \A k \in Colors, v \in Status \cup {Other} :
              LET r == setitem(paintsOf(Heap, p), k, v)
              IN r.err = "TypeError" /\ r.m = paintsOf(Heap, p)

\* C12: checkPaint / checkDecal return the stored status of a tracked key,
\* and for a key that is not tracked a result that is none of the three
\* statuses
C12_AbsentDistinct ==
    \A p \in Refs :
        /\ \A k \in Paints :
              LET r == checkPaint(Heap, p, k)
              IN /\ r.err = "none"
                 /\ IF k \in DOMAIN paintsOf(Heap, p) THEN r.rtn = paintsOf(Heap, p)[k]
                    ELSE r.rtn \notin Status
        /\ \A k \in Decals :
              LET r == checkDecal(Heap, p, k)
              IN /\ r.err = "none"
                 /\ IF k \in DOMAIN decalsOf(Heap, p) THEN r.rtn = decalsOf(Heap, p)[k]
                    ELSE r.rtn \notin Status

\* C13: two bare Parts are equal iff they have the same id, the same paint
\* keys and the same decal keys; no status update and no assignment to
\* master changes whether two Parts are equal
C13_PartEquality ==
    /\ [](\A p, q \in Refs : (objs[p].cls = "Part" /\ objs[q].cls = "Part") =>
             (eq(Heap, p, q) <=>
                /\ objs[p].id = objs[q].id
                /\ DOMAIN paintsOf(Heap, p) = DOMAIN paintsOf(Heap, q)
                /\ DOMAIN decalsOf(Heap, p) = DOMAIN decalsOf(Heap, q)))
    /\ [][\A p, q \in Refs : (objs[p].cls = "Part" /\ objs[q].cls = "Part") =>
             (eq(Heap, p, q) <=> eq(Heap', p, q))]_vars

\* two equal Parts that differ in a paint status and in their master
C13_Witness ==
    \E p, q \in Refs :
        /\ objs[p].cls = "Part" /\ objs[q].cls = "Part"
        /\ eq(Heap, p, q)
        /\ objs[p].master # objs[q].master
        /\ \E k \in DOMAIN paintsOf(Heap, p) : paintsOf(Heap, p)[k] # paintsOf(Heap, q)[k]

RECURSIVE below(_, _)
\* the objects reachable in heap h from a set of objects through member lists
below(h, S) ==
    LET T == S \cup UNION {Range(partsOf(h, o)) : o \in {o \in S : isAssembly(h.objs, o)}}
    IN IF T = S THEN S ELSE below(h, T)

\* the heap after o.paints[k] = v (which = "paints") or o.decals[k] = v
setStatus(h, o, which, k, v) ==
    [h EXCEPT !.maps[h.objs[o][which]][which][k] = v]

\* the status changes a caller can make on object o of heap h
Updates(h, o) ==
    {<<which, k, v>> \in {"paints", "decals"} \X (Paints \cup Decals) \X Status :
        k \in keys(h, o, which)}

\* the statuses and the completion seen from object c of heap h
view(h, c) ==
    [st |-> [q \in below(h, {c}) |-> <<paintsOf(h, q), decalsOf(h, q)>>],
     painted |-> isPainted(h, c),
     decaled |-> isDecaled(h, c)]

\* C14: the Assembly a Step stores is a deep copy of the caller's: a status
\* changed on anything reached through the original leaves the statuses
\* and the isPainted / isDecaled results seen through the stored copy as
\* they were, and a change made through the copy is not seen through the
\* original
C14_DeepCopy ==
    \A a \in Members : objs[a].cls = "Assembly" =>
        \A arg \in {single(a), seq(<<a>>)} :
            LET r == construct(Heap, arg)
                c == partsOf(r.h, Len(objs) + 1)[1]
            IN r.err = "none" =>
                  /\ \A o \in below(r.h, {a}) : \A u \in Updates(r.h, o) :
                        view(setStatus(r.h, o, u[1], u[2], u[3]), c) = view(r.h, c)
                  /\ \A o \in below(r.h, {c}) : \A u \in Updates(r.h, o) :
                        view(setStatus(r.h, o, u[1], u[2], u[3]), a) = view(r.h, a)

RECURSIVE chain(_, _)
\* the steps met by following previous from o, at most n of them
chain(o, n) ==
    IF o = None \/ n = 0 THEN <<>> ELSE <<o>> \o chain(objs[o].previous, n - 1)

\* C15: the first step of the model has no previous, the previous of every
\* later step is the step before it, and following previous from the last
\* step meets every step of the model once, in reverse order
C15_PreviousChain ==
    /\ \A i \in 1..Len(steps) :
          objs[steps[i]].previous = IF i = 1 THEN None ELSE steps[i - 1]
    /\ \A i, j \in 1..Len(steps) : steps[i] = steps[j] => i = j
    /\ Len(steps) > 0 =>
          chain(steps[Len(steps)], Len(objs) + 1)
             = [i \in 1..Len(steps) |-> steps[Len(steps) + 1 - i]]

\* a model with two steps
C15_Witness == Len(steps) = 2 /\ objs[steps[2]].previous = steps[1]

\* the objects without a master
unowned(o) == objs[o].master = None

RECURSIVE entered(_)
\* the assemblies whose member loop an assignment to master runs: the
\* assembly assigned to, and the unowned member assemblies of those
entered(S) ==
    LET T == S \cup {m \in UNION {Range(partsOf(Heap, x)) : x \in S} :
                       isAssembly(objs, m) /\ unowned(m)}
    IN IF T = S THEN S ELSE entered(T)

\* the objects an assignment to the master of a stamps
stamped(a) ==
    {o \in {a} : unowned(o)}
    \cup {m \in UNION {Range(partsOf(Heap, x)) : x \in entered({a})} : unowned(m)}

\* C16: master = S on an Assembly stamps the assembly if it has no master
\* and every direct member without one, going down into the member
\* assemblies it stamps; it changes no master that was set; it raises iff
\* the assembly and all its direct members had a master, and then changes
\* nothing
C16_AssemblyMaster ==
    \A a \in Members, v \in Steps : isAssembly(objs, a) =>
        LET r == Assembly_master(Heap, a, v)
            fails == ~unowned(a) /\ \A m \in Range(partsOf(Heap, a)) : ~unowned(m)
        IN /\ r.err = IF fails THEN "ValueError" ELSE "none"
           /\ fails => r.h = Heap
           /\ r.h.maps = maps /\ r.h.lists = lists
           /\ \A o \in Refs :
                 r.h.objs[o] = IF o \in stamped(a) THEN [objs[o] EXCEPT !.master = v]
                               ELSE objs[o]

\* an assembly stamped two levels down: it, a member assembly and a member
\* of that one have the same master
C16_Witness ==
    \E a, b, p \in Members :
        /\ objs[a].cls = "Assembly" /\ objs[b].cls = "Assembly" /\ a # b /\ p # a /\ p # b
        /\ b \in Range(partsOf(Heap, a)) /\ p \in Range(partsOf(Heap, b))
        /\ ~unowned(a)
        /\ objs[b].master = objs[a].master /\ objs[p].master = objs[a].master

\* C17: the paint keys of every Assembly (and Step) are the union of the
\* paint keys of everything below it, and likewise its decal keys
C17_KeyUnion ==
    \A a \in Members : isAssembly(objs, a) =>
        LET under == descendants(Range(partsOf(Heap, a)))
        IN /\ DOMAIN paintsOf(Heap, a) = UNION {DOMAIN paintsOf(Heap, d) : d \in under}
           /\ DOMAIN decalsOf(Heap, a) = UNION {DOMAIN decalsOf(Heap, d) : d \in under}

\* what is attached: a bare Part, alone or in a sequence
Attached == UNION {{single(x), seq(<<x>>)} : x \in {x \in Members : objs[x].cls = "Part"}}

\* C18: attach builds new member sequences: when a Step was constructed
\* from Assembly A and X is attached to A afterwards, the copy of A stored
\* in the Step has the members it had, the Step's get for the ids of X
\* returns what it returned, and A lists its old members followed by X
C18_AttachFrame ==
    \A arg \in Args : \A i \in 1..Len(arg.items) : \A X \in Attached :
        LET A == arg.items[i]
            self == Len(objs) + 1
            r1 == construct(Heap, arg)
            c == partsOf(r1.h, self)[i]
            r2 == attach(r1.h, A, X)
            id == [kind |-> "str", id |-> objs[X.items[1]].id, obj |-> None]
        IN (A # None /\ clsOf(objs, A) = "Assembly" /\ r1.err = "none" /\ r2.err = "none") =>
              /\ partsOf(r2.h, c) = partsOf(r1.h, c)
              /\ assembliesOf(r2.h, c) = assembliesOf(r1.h, c)
              /\ partsOf(r2.h, A) = partsOf(r1.h, A) \o X.items
              /\ \A recursive \in BOOLEAN :
                    get(r2.h, self, id, recursive) = get(r1.h, self, id, recursive)

\* C19: getUnpainted(paint) reads no assembly's own status map: it returns
\* no member all of whose bare parts have the status True for the paint
C19_NoOwnMapRead ==
    \A a \in Members, paint \in Paints, recursive \in BOOLEAN : isAssembly(objs, a) =>
        \A m \in Range(getUnpainted(Heap, a, paint, recursive).rtn) :
            LET bare == {q \in descendants({m}) : objs[q].cls = "Part"}
            IN ~(/\ bare # {}
                 /\ \A q \in bare : dictGet(paintsOf(Heap, q), paint) = "True")

\* C20: every Part and Assembly held by a step of the model, at any depth,
\* has an entry under its id in the parts registry (a Part) or in the
\* assemblies registry (an Assembly)
C20_DeepRegistry ==
    \A i \in 1..Len(steps) :
        \A d \in descendants(Range(partsOf(Heap, steps[i]))) :
            /\ objs[d].cls = "Part" => objs[d].id \in DOMAIN parts
            /\ objs[d].cls = "Assembly" => objs[d].id \in DOMAIN assemblies

\* the ids get is asked for
WantedIds == {x \in Wanted : x.kind = "str"}

\* C21: on a Step built from members that, with everything below them, had
\* no master, get(x, recursive=False) returns every match of x at any depth
\* below the Step, and returns the same for an Assembly passed alone and
\* for that Assembly passed in a one-element sequence
C21_StepGetDepth ==
    \A arg \in Args, x \in WantedIds :
        LET self == Len(objs) + 1
            r == construct(Heap, arg)
            inside == {b \in below(r.h, {self}) : isAssembly(r.h.objs, b)}
        IN (/\ Unowned(arg)
            /\ \A o \in descendants(Range(arg.items)) : unowned(o)
            /\ r.err = "none") =>
              /\ Range(get(r.h, self, x, FALSE).rtn)
                    = {m \in UNION {Range(partsOf(r.h, b)) : b \in inside} :
                         matches(r.h, m, x)}
              /\ (arg.kind = "single" /\ objs[arg.items[1]].cls = "Assembly") =>
                    LET r2 == construct(Heap, seq(arg.items))
                    IN get(r2.h, self, x, FALSE).rtn = get(r.h, self, x, FALSE).rtn

\* C22: a nextStep that fails has changed no master, and every object
\* whose master is set is owned by a Step of the model's step sequence
C22_NoPartialStamp ==
    /\ \A arg \in Args :
          LET r == construct(Heap, arg)
          IN r.err # "none" => \A o \in Refs : r.h.objs[o].master = objs[o].master
    /\ \A o \in Refs : objs[o].master # None => objs[o].master \in Range(steps)

\* C23: an attach that raises TypeError leaves the assembly as it was: its
\* master, its parts and assemblies sequences and its paint and decal keys
C23_AttachFailFrame ==
    \A a \in Members, arg \in Args : isAssembly(objs, a) =>
        LET r == attach(Heap, a, arg)
        IN r.err = "TypeError" =>
              /\ r.h.objs[a].master = objs[a].master
              /\ partsOf(r.h, a) = partsOf(Heap, a)
              /\ assembliesOf(r.h, a) = assembliesOf(Heap, a)
              /\ DOMAIN paintsOf(r.h, a) = DOMAIN paintsOf(Heap, a)
              /\ DOMAIN decalsOf(r.h, a) = DOMAIN decalsOf(Heap, a)

\* the key sets and the hash of object c in heap h, and the objects among
\* others that it is equal to
identity(h, c, others) ==
    [paints |-> DOMAIN paintsOf(h, c),
     decals |-> DOMAIN decalsOf(h, c),
     hash |-> hash(h, c),
     eq |-> {b \in others : eq(h, c, b)}]

\* C24: once a Step has stored its copy of Assembly A, an attach on A
\* leaves the copy's paint and decal keys, its hash and its equalities
\* with the assemblies other than A as they were, and an attach on the copy
\* leaves the keys of A as they were
C24_AttachKeysFrame ==
    \A A \in Members : objs[A].cls = "Assembly" =>
        \A arg \in {single(A), seq(<<A>>)}, X \in Attached :
            LET r1 == construct(Heap, arg)
                c == partsOf(r1.h, Len(objs) + 1)[1]
                onA == attach(r1.h, A, X)
                onC == attach(r1.h, c, X)
            IN r1.err = "none" =>
                  /\ onA.err = "none" =>
                        identity(onA.h, c, Members \ {A}) = identity(r1.h, c, Members \ {A})
                  /\ onC.err = "none" =>
                        /\ DOMAIN paintsOf(onC.h, A) = DOMAIN paintsOf(r1.h, A)
                        /\ DOMAIN decalsOf(onC.h, A) = DOMAIN decalsOf(r1.h, A)
====
